--------------------------- MODULE Spec2Model ---------------------------
(***************************************************************************)
(* A model of the two-stage retrieval / rerank pipeline of clirweb:        *)
(*   - RetrievalService (app/services/retrieval_service.py): the Faiss     *)
(*     index, its doc_ids array, and their persisted form on disk;         *)
(*   - CrossEncoder (app/models/cross_encoder.py): the load/unload         *)
(*     lifecycle and batched scoring with its zero-score fallbacks;        *)
(*   - RerankService (app/services/rerank_service.py): rerank,             *)
(*     _prepare_document_text, get_rerank_stats and compare_rankings;      *)
(*   - the /api/search, /api/rerank/unload and /api/rerank/status          *)
(*     handlers (app/api/routes/search.py) as coroutines of one event      *)
(*     loop.                                                               *)
(*                                                                         *)
(* Python values are modelled as follows.  A dict is a TLA+ record whose   *)
(* DOMAIN is the dict's key set, so an absent key is an absent field.  A   *)
(* float score is an integer in 0..MaxScore (the relevance model yields a  *)
(* sigmoid / softmax value; only order and equality matter here, and 0     *)
(* is the value of the code's 0.0 fallback).  Vectors are tuples of small  *)
(* integers and the inner product is exact.                                *)
(***************************************************************************)
EXTENDS Integers, Sequences, FiniteSets, TLC

VARIABLES
    \* ---- index store (RetrievalService and the files it owns) ----
    corpus,       \* the documents of docs_path, in file order
    indexFile,    \* the file at index_path
    idsFile,      \* the file at index_path + ".ids"
    pcStore,      \* "down": no process; "up": __init__ has returned
    index,        \* self.index
    doc_ids,      \* self.doc_ids
    runs,         \* number of process starts so far
    servedFrom,   \* history: how the running process got its index
    builtStore,   \* history: in-memory store of the last build whose save completed
    found,        \* history: the last search of the running process
    \* ---- cross-encoder singleton ----
    ce,           \* [is_loaded, model, tokenizer]
    \* ---- direct calls of a method of RerankService or CrossEncoder ----
    rrIn,         \* the arguments of the call (CrossEncoder: the calls so far)
    rrOut,        \* what the call returned, and what happened inside it
    \* ---- request handlers on the event loop ----
    running,      \* the coroutine the event loop is executing, or 0
    docStore,     \* DocumentService.documents, loaded once at start
    active,       \* the clients that send requests
    hs,           \* per client: the handler's position and locals
    lastResp,     \* the response returned by the step just taken, if any
    unloads       \* history: times a loaded model was released (saturating)

storeVars  == <<corpus, indexFile, idsFile, pcStore, index, doc_ids, runs,
                servedFrom, builtStore, found>>
rerankVars == <<rrIn, rrOut>>
serveVars  == <<running, docStore, active, hs, lastResp, unloads>>
vars == <<storeVars, ce, rerankVars, serveVars>>

(***************************************************************************)
(* Bounds of the model.                                                    *)
(***************************************************************************)
\* Length of an embedding vector.  RetrievalService is constructed with
\* dimension=768; the model uses short vectors.
dimension == 2
\* Number of distinct document texts the corpus draws from.
MaxText == 2
\* Largest corpus (documents in docs_path).
MaxCorpus == 2
\* Number of times the service process is started.
MaxRuns == 3
\* Largest top_k passed to RetrievalService.search in the model.
MaxK == 3

Min(a, b) == IF a < b THEN a ELSE b

(***************************************************************************)
(* Document identifiers.  doc.get("doc_id") of a parsed JSON line is a     *)
(* string, a number, or None when the key is missing.                      *)
(***************************************************************************)
PyNone == <<"None", 0>>
PyInt(n) == <<"int", n>>
PyStr(s) == <<"str", s>>
DocIdValues == {PyInt(1), PyStr(1), PyNone}

\* sentence_encoder_instance.encode: an external model; any fixed function
\* of the text to a vector of the index's dimension.  Here: the binary
\* digits of the text's number.
Encode(text) == [i \in 1..dimension |-> (text \div (2 ^ (i - 1))) % 2]

Texts == 1..MaxText

Documents == [doc_id : DocIdValues, text : Texts]

RECURSIVE SeqsUpTo(_, _)
SeqsUpTo(S, n) ==
    IF n = 0 THEN {<<>>}
    ELSE LET shorter == SeqsUpTo(S, n - 1)
         IN  shorter \cup {Append(s, x) : s \in {t \in shorter : Len(t) = n - 1}, x \in S}

\* docs_path holds at least one document in every corpus the model draws
\* (an empty file behaves as an unreadable one: _load_documents returns []).
Corpora == SeqsUpTo(Documents, MaxCorpus) \ {<<>>}

(***************************************************************************)
(* The Faiss index object and its serialized form.                         *)
(***************************************************************************)
NoneIndex == [kind |-> "None"]
IndexFlatIP(d, xb) == [kind |-> "IndexFlatIP", d |-> d, xb |-> xb]
ntotal(ix) == Len(ix.xb)

RECURSIVE Flatten(_)
Flatten(vs) == IF vs = <<>> THEN <<>> ELSE Head(vs) \o Flatten(Tail(vs))

\* faiss.write_index of an IndexFlat: the header (d, ntotal) followed by
\* the vectors as one flat array of codes.
WriteIndexBlob(ix) == [d |-> ix.d, ntotal |-> ntotal(ix), codes |-> Flatten(ix.xb)]

\* faiss.read_index: rebuilds the ntotal vectors of length d from the codes.
ReadIndexBlob(blob) ==
    IndexFlatIP(blob.d,
        [i \in 1..blob.ntotal |->
            [j \in 1..blob.d |-> blob.codes[(i - 1) * blob.d + j]]])

\* A json.dump that writes every id as a string, as str(id) would.
JsonDumpIdAsStr(id) == <<"string", id[2]>>

\* json.dump(self.doc_ids, f): one JSON token per id.
JsonDumpId(id) ==
    IF id[1] = "int" THEN <<"number", id[2]>>
    ELSE IF id[1] = "str" THEN <<"string", id[2]>>
    ELSE <<"null", 0>>

JsonDump(ids) == [i \in 1..Len(ids) |-> JsonDumpId(ids[i])]

\* json.load(f)
JsonLoadToken(tok) ==
    IF tok[1] = "number" THEN PyInt(tok[2])
    ELSE IF tok[1] = "string" THEN PyStr(tok[2])
    ELSE PyNone

JsonLoad(text) == [i \in 1..Len(text) |-> JsonLoadToken(text[i])]

\* A file is absent, holds a prefix of what a writer meant to write, or
\* holds all of it.  "by" records which process run wrote it (history).
Absent == [kind |-> "absent"]
PartialFile(run) == [kind |-> "partial", by |-> run]
WholeFile(run, data) == [kind |-> "file", by |-> run, data |-> data]


(***************************************************************************)
(* RetrievalService: building, persisting and loading the index.  The      *)
(* operators below work on a record s = [index, doc_ids, indexFile,        *)
(* idsFile, alive, path, saved]: the object's two fields, the two files,   *)
(* whether the process is still alive, and two history fields (which path  *)
(* __init__ ended on, and whether _save_index ran to its end).             *)
(***************************************************************************)

\* Where _save_index stops: "ok" (both files written), "index_partial"
\* (inside faiss.write_index), "ids_unwritten" (index file written, the
\* .ids file not yet opened), "ids_partial" (inside json.dump, after
\* open(..., 'w') truncated the file); and how: an exception, which the
\* except clause logs, or the death of the process.
SaveOutcomes ==
    {[at |-> "ok", how |-> "return"]}
    \cup [at : {"index_partial", "ids_unwritten", "ids_partial"}, how : {"raise", "kill"}]

\* What the environment decides during one construction of the service.
StartEnvs == [docsReadable : BOOLEAN, encodeOK : BOOLEAN, save : SaveOutcomes]

\* RetrievalService._save_index
SaveIndex(s, out, run) ==
    IF s.index = NoneIndex
    THEN s      \* faiss.write_index(None, ...) raises; logged, nothing written
    ELSE LET blob == WholeFile(run, WriteIndexBlob(s.index))
             ids  == WholeFile(run, JsonDump(s.doc_ids))
             live == out.how # "kill"
         IN  CASE out.at = "ok" ->
                    [s EXCEPT !.indexFile = blob, !.idsFile = ids, !.saved = TRUE]
               [] out.at = "index_partial" ->
                    [s EXCEPT !.indexFile = PartialFile(run), !.alive = live]
               [] out.at = "ids_unwritten" ->
                    [s EXCEPT !.indexFile = blob, !.alive = live]
               [] out.at = "ids_partial" ->
                    [s EXCEPT !.indexFile = blob, !.idsFile = PartialFile(run),
                              !.alive = live]

\* RetrievalService._create_index (with _load_documents, _encode_documents
\* and _add_vectors_to_index, which turn a failure into [] / an empty
\* array / None)
CreateIndex(s, env, run) ==
    LET documents == IF env.docsReadable THEN corpus ELSE <<>>
    IN  IF documents = <<>>
        THEN s      \* "No documents found, cannot create index"
        ELSE LET ids  == [i \in 1..Len(documents) |-> documents[i].doc_id]
                 embs == [i \in 1..Len(documents) |-> Encode(documents[i].text)]
                 \* index.add of the empty array of a failed encoding raises,
                 \* and _add_vectors_to_index returns None
                 ix   == IF env.encodeOK THEN IndexFlatIP(dimension, embs)
                         ELSE NoneIndex
             IN  SaveIndex([s EXCEPT !.doc_ids = ids, !.index = ix, !.path = "build"],
                           env.save, run)

\* RetrievalService._load_index
LoadIndex(s, env, run) ==
    IF s.indexFile.kind # "file"
    THEN CreateIndex(s, env, run)           \* faiss.read_index raises
    ELSE LET s1 == [s EXCEPT !.index = ReadIndexBlob(s.indexFile.data)]
         IN  IF s.idsFile.kind = "absent"
             THEN [s1 EXCEPT !.path = "disk"]   \* warning only
             ELSE IF s.idsFile.kind = "partial"
             THEN CreateIndex(s1, env, run)     \* json.load raises
             ELSE [s1 EXCEPT !.doc_ids = JsonLoad(s.idsFile.data), !.path = "disk"]

\* RetrievalService._load_or_create_index
LoadOrCreateIndex(s, env, run) ==
    IF s.indexFile.kind # "absent" THEN LoadIndex(s, env, run)
    ELSE CreateIndex(s, env, run)

(***************************************************************************)
(* RetrievalService.search, from the query vector on.                      *)
(***************************************************************************)
RECURSIVE Dot(_, _)
Dot(u, v) == IF u = <<>> THEN 0 ELSE Head(u) * Head(v) + Dot(Tail(u), Tail(v))

\* The position (0-based, as Faiss labels them) with the largest score
\* among the positions of P; of equal scores, the one inserted first.
Best(score, P) ==
    CHOOSE p \in P : \A r \in P : score[p] > score[r] \/ (score[p] = score[r] /\ p <= r)

RECURSIVE TopLabels(_, _, _)
TopLabels(score, P, k) ==
    IF k = 0 \/ P = {} THEN <<>>
    ELSE LET b == Best(score, P) IN <<b>> \o TopLabels(score, P \ {b}, k - 1)

\* index.search(query_vector, top_k) of an IndexFlatIP: the labels of the
\* top_k largest inner products, best first, padded with -1 when the index
\* holds fewer than top_k vectors.  The scores are in units of 1/|q|: the
\* code divides the query by its norm, which scales every score alike.
IndexSearch(ix, q, top_k) ==
    LET P     == 0..(ntotal(ix) - 1)
        score == [p \in P |-> Dot(q, ix.xb[p + 1])]
        top   == TopLabels(score, P, top_k)
    IN  [i \in 1..top_k |->
            IF i <= Len(top) THEN [idx |-> top[i], score |-> score[top[i]]]
            ELSE [idx |-> -1, score |-> -1]]

\* A guard that checks the upper end only.
ValidPositionNoLowerBound(idx, ids) == idx < Len(ids)

\* line 168: idx < len(self.doc_ids) and idx >= 0
ValidPosition(idx, ids) == idx < Len(ids) /\ idx >= 0

\* self.doc_ids[idx] raises IndexError outside -len..len-1 ...
GetItemRaises(ids, idx) == idx >= Len(ids) \/ idx < -Len(ids)

\* ... and counts a negative idx from the end of the list.
GetItem(ids, idx) == IF idx >= 0 THEN ids[idx + 1] ELSE ids[Len(ids) + idx + 1]

\* A rank that repeats the position of enumerate, which starts at 0.
RankFromZero(i) == i

\* line 173: "rank": i + 1, for the position i of enumerate
Rank(i) == i + 1

\* lines 166-174: the result loop over the hits of the index, from the
\* i-th (1-based here) on
RECURSIVE Hits(_, _, _)
Hits(hits, ids, i) ==
    IF i > Len(hits) THEN <<>>
    ELSE LET idx == hits[i].idx
         IN  (IF ValidPosition(idx, ids)
              THEN <<[doc_id |-> GetItem(ids, idx), score |-> hits[i].score,
                      rank |-> Rank(i - 1)]>>
              ELSE <<>>)
             \o Hits(hits, ids, i + 1)

\* The result loop raises: some position passes the guard and is outside
\* the list.
HitsRaise(hits, ids) ==
    \E i \in 1..Len(hits) :
        ValidPosition(hits[i].idx, ids) /\ GetItemRaises(ids, hits[i].idx)

\* A search that adds the query vector to the index it searched.
SelfAfterSearchAddsQuery(ix, ids, q) ==
    [index |-> IF ix = NoneIndex THEN ix ELSE IndexFlatIP(ix.d, Append(ix.xb, q)),
     doc_ids |-> ids]

\* self.index and self.doc_ids after search: the method assigns neither,
\* and index.search does not change the index.
SelfAfterSearch(ix, ids, q) == [index |-> ix, doc_ids |-> ids]

\* RetrievalService.search for a store (ix, ids): the list returned
\* (results), the service's fields afterwards (self), and as history the
\* positions the index returned (labels) and whether the except clause of
\* line 177 was entered (raised)
Search(ix, ids, q, top_k) ==
    IF ix = NoneIndex
    THEN [results |-> <<>>, labels |-> <<>>, raised |-> FALSE,
          self |-> [index |-> ix, doc_ids |-> ids]]
    ELSE LET hits == IndexSearch(ix, q, top_k)
             bad  == HitsRaise(hits, ids)
         IN  [results |-> IF bad THEN <<>> ELSE Hits(hits, ids, 1),
              labels |-> [i \in 1..Len(hits) |-> hits[i].idx],
              raised |-> bad,
              self |-> SelfAfterSearch(ix, ids, q)]

\* The list RetrievalService.search returns for a store (ix, ids)
SearchStore(ix, ids, q, top_k) == Search(ix, ids, q, top_k).results

\* Query vectors: what the sentence encoder returns for a query text.  The
\* zero vector is left out (its normalisation divides by zero).
QueryVecs == [1..dimension -> 0..1] \ {[i \in 1..dimension |-> 0]}

(***************************************************************************)
(* The life of the service process.                                        *)
(***************************************************************************)
NoBuild == [by |-> 0, index |-> NoneIndex, doc_ids |-> <<>>]

\* The history variable found counts searches up to MaxSearches.
MaxSearches == 2

NotSearched == [nth |-> 0]

\* RetrievalService.__init__, run at import of app.services
Start ==
    /\ pcStore = "down"
    /\ runs < MaxRuns
    /\ \E env \in StartEnvs :
         LET run == runs + 1
             s0  == [index |-> NoneIndex, doc_ids |-> <<>>,
                     indexFile |-> indexFile, idsFile |-> idsFile,
                     alive |-> TRUE, path |-> "none", saved |-> FALSE]
             r   == LoadOrCreateIndex(s0, env, run)
         IN  /\ runs' = run
             /\ indexFile' = r.indexFile
             /\ idsFile' = r.idsFile
             /\ pcStore' = IF r.alive THEN "up" ELSE "down"
             /\ index' = IF r.alive THEN r.index ELSE NoneIndex
             /\ doc_ids' = IF r.alive THEN r.doc_ids ELSE <<>>
             /\ servedFrom' = IF r.alive THEN r.path ELSE "none"
             /\ builtStore' = IF r.saved
                              THEN [by |-> run, index |-> r.index, doc_ids |-> r.doc_ids]
                              ELSE builtStore
    /\ found' = NotSearched
    /\ UNCHANGED <<corpus, ce, rerankVars, serveVars>>

\* The process exits; the files stay.
Stop ==
    /\ pcStore = "up"
    /\ pcStore' = "down"
    /\ index' = NoneIndex
    /\ doc_ids' = <<>>
    /\ servedFrom' = "none"
    /\ found' = NotSearched
    /\ UNCHANGED <<corpus, indexFile, idsFile, runs, builtStore, ce, rerankVars, serveVars>>

\* retrieval_service_instance.search(query_text, top_k), as search_documents
\* calls it (line 35 of search.py) on the running process
SearchCall ==
    /\ pcStore = "up"
    /\ \E q \in QueryVecs, top_k \in 1..MaxK :
         LET r == Search(index, doc_ids, q, top_k)
         IN  /\ found' = [nth |-> Min(found.nth + 1, MaxSearches), top_k |-> top_k,
                          results |-> r.results, labels |-> r.labels,
                          raised |-> r.raised]
             /\ index' = r.self.index
             /\ doc_ids' = r.self.doc_ids
    /\ UNCHANGED <<corpus, indexFile, idsFile, pcStore, runs, servedFrom, builtStore,
                   ce, rerankVars, serveVars>>

(***************************************************************************)
(* CrossEncoder: the shared relevance model.                               *)
(***************************************************************************)
\* Largest score the relevance model returns, in the model's integer scale.
MaxScore == 1
\* batch_size of rerank / compute_scores (16 by default in the code; the
\* model batches by a smaller number so that short lists span batches).
BatchSize == 2

Unloaded == [is_loaded |-> FALSE, model |-> "None", tokenizer |-> "None"]
Loaded == [is_loaded |-> TRUE, model |-> "model", tokenizer |-> "tokenizer"]

\* How one load_model goes: to its end, or to an exception in
\* AutoTokenizer.from_pretrained, in
\* AutoModelForSequenceClassification.from_pretrained, or in
\* model.to(DEVICE) / model.eval().
LoadOutcomes == {"ok", "tokenizer_raises", "model_raises", "to_device_raises"}

\* An except clause that clears is_loaded and keeps what was loaded.
LoadFailedKeepsObjects(c) == [c EXCEPT !.is_loaded = FALSE]

\* lines 48-53: the except clause of load_model
LoadFailed(c) == [c EXCEPT !.model = "None", !.tokenizer = "None", !.is_loaded = FALSE]

\* CrossEncoder.load_model: the state after it and its return value
LoadModel(c, out) ==
    IF c.is_loaded THEN [ce |-> c, ret |-> TRUE]
    ELSE LET c1 == IF out = "tokenizer_raises" THEN c
                   ELSE [c EXCEPT !.tokenizer = "tokenizer"]
             c2 == IF out \in {"tokenizer_raises", "model_raises"} THEN c1
                   ELSE [c1 EXCEPT !.model = "model"]
         IN  IF out = "ok" THEN [ce |-> [c2 EXCEPT !.is_loaded = TRUE], ret |-> TRUE]
             ELSE [ce |-> LoadFailed(c2), ret |-> FALSE]

\* An unload_model that releases the model and the tokenizer but leaves
\* is_loaded set.
UnloadModelKeepsFlag(c) ==
    IF c.is_loaded THEN [c EXCEPT !.model = "None", !.tokenizer = "None"] ELSE c

\* CrossEncoder.unload_model
UnloadModel(c) == IF c.is_loaded THEN Unloaded ELSE c

\* CrossEncoder.get_model_info()["is_loaded"]
ModelInfoLoaded(c) == c.is_loaded

Zeros(n) == [i \in 1..n |-> 0]

NumBatches(n, batch_size) == (n + batch_size - 1) \div batch_size

\* CrossEncoder._compute_batch_scores for the pairs lo..hi: the model's
\* scores, or, when anything in the batch raises (the tokenizer or the
\* model is None, or inference fails), 0.0 for each pair of the batch.
ComputeBatchScores(c, lo, hi, raises, modelScore) ==
    IF raises \/ c.model = "None" \/ c.tokenizer = "None"
    THEN Zeros(hi - lo + 1)
    ELSE [i \in 1..(hi - lo + 1) |-> modelScore[lo + i - 1]]

RECURSIVE BatchLoop(_, _, _, _, _, _)
BatchLoop(c, n, batch_size, b, batchRaises, modelScore) ==
    IF (b - 1) * batch_size >= n THEN <<>>
    ELSE LET lo == (b - 1) * batch_size + 1
             hi == Min(b * batch_size, n)
         IN  ComputeBatchScores(c, lo, hi, batchRaises[b], modelScore)
             \o BatchLoop(c, n, batch_size, b + 1, batchRaises, modelScore)

\* CrossEncoder.compute_scores for n pairs
ComputeScores(c, n, batch_size, batchRaises, modelScore) ==
    IF ~c.is_loaded THEN Zeros(n)       \* "Model not loaded. Call load_model() first."
    ELSE IF n = 0 THEN <<>>
    ELSE BatchLoop(c, n, batch_size, 1, batchRaises, modelScore)

(***************************************************************************)
(* RerankService.rerank                                                    *)
(***************************************************************************)
\* top_k: Optional[int].  None is <<>>, the integer k is <<k>>.
NoTopK == <<>>
TopK(k) == <<k>>

\* Python's `if top_k`: None and 0 are both false.
Truthy(top_k) == top_k # NoTopK /\ top_k[1] # 0

\* seq[:k] for an integer k (a negative k counts from the end)
Slice(seq, k) ==
    LET n == Len(seq)
        m == IF k >= 0 THEN Min(k, n) ELSE (IF n + k > 0 THEN n + k ELSE 0)
    IN  SubSeq(seq, 1, m)

\* `xs[:top_k] if top_k else xs`
Truncate(xs, top_k) == IF Truthy(top_k) THEN Slice(xs, top_k[1]) ELSE xs

\* _prepare_document_text raises (AttributeError on .strip()) when the
\* title is not a string.
PrepareRaises(doc) == "title" \in DOMAIN doc /\ doc.title[1] # "str"

\* doc.get('vector_rank', i + 1)
OriginalRank(doc, i) == IF "vector_rank" \in DOMAIN doc THEN doc.vector_rank ELSE i

\* lines 60-66: a copy of each document with its score and original rank
Scored(documents, scores) ==
    [i \in 1..Min(Len(documents), Len(scores)) |->
        [f \in DOMAIN documents[i] \cup {"cross_encoder_score", "original_rank"} |->
            IF f = "cross_encoder_score" THEN scores[i]
            ELSE IF f = "original_rank" THEN OriginalRank(documents[i], i)
            ELSE documents[i][f]]]

\* A sort that is not stable: of equal scores it takes the last first.
LastMax(docs) ==
    CHOOSE i \in 1..Len(docs) :
        \A j \in 1..Len(docs) :
            \/ docs[i].cross_encoder_score > docs[j].cross_encoder_score
            \/ (docs[i].cross_encoder_score = docs[j].cross_encoder_score /\ i >= j)

\* list.sort(key=cross_encoder_score, reverse=True): descending, and
\* stable (equal scores keep their order in the list)
FirstMax(docs) ==
    CHOOSE i \in 1..Len(docs) :
        \A j \in 1..Len(docs) :
            \/ docs[i].cross_encoder_score > docs[j].cross_encoder_score
            \/ (docs[i].cross_encoder_score = docs[j].cross_encoder_score /\ i <= j)

RECURSIVE SortByScoreDesc(_)
SortByScoreDesc(docs) ==
    IF docs = <<>> THEN <<>>
    ELSE LET i == FirstMax(docs)
         IN  <<docs[i]>> \o
             SortByScoreDesc(SubSeq(docs, 1, i - 1) \o SubSeq(docs, i + 1, Len(docs)))

\* lines 72-73: doc['final_rank'] = i + 1
WithFinalRank(docs) ==
    [i \in 1..Len(docs) |->
        [f \in DOMAIN docs[i] \cup {"final_rank"} |->
            IF f = "final_rank" THEN i ELSE docs[i][f]]]

\* What the environment decides during one rerank: how a load_model goes,
\* which scoring batches raise, and what the model would score each pair.
RerankEnvs(n) ==
    [load : LoadOutcomes,
     batchRaises : [1..NumBatches(n, BatchSize) -> BOOLEAN],
     modelScore : [1..n -> 0..MaxScore]]

\* RerankService.ensure_model_loaded
EnsureModelLoaded(c, out) ==
    IF ~c.is_loaded THEN LoadModel(c, out) ELSE [ce |-> c, ret |-> TRUE]

NoHist == [loadFailed |-> FALSE, raised |-> FALSE, batchFailed |-> FALSE,
           byModel |-> FALSE, unloadedAtScoring |-> FALSE]

\* RerankService.rerank from line 43 on (the try block), entered after
\* ensure_model_loaded returned True, with the cross-encoder in state c.
\* ret is the list returned; the other fields are history: raised (an
\* exception reached the except clause of rerank), batchFailed (some
\* scoring batch fell back to zeros), unloadedAtScoring (compute_scores
\* found the model not loaded), byModel (every pair was scored by the
\* model), ranked (the sorted list of line 73, before line 76 cuts it).
RerankAfterLoad(documents, top_k, batch_size, c, env) ==
    LET n == Len(documents)
    IN  IF \E i \in 1..n : PrepareRaises(documents[i])
        THEN [ret |-> Truncate(documents, top_k), raised |-> TRUE] @@ NoHist
        ELSE LET rerank_scores == ComputeScores(c, n, batch_size,
                                                env.batchRaises, env.modelScore)
                 reranked_docs == WithFinalRank(
                                     SortByScoreDesc(Scored(documents, rerank_scores)))
                 final_results == Truncate(reranked_docs, top_k)
                 failed == c.is_loaded /\ \E b \in DOMAIN env.batchRaises : env.batchRaises[b]
                 hist == [batchFailed |-> failed,
                          unloadedAtScoring |-> ~c.is_loaded,
                          byModel |-> c.is_loaded /\ ~failed] @@ NoHist
             IN  IF final_results = <<>>
                 THEN \* final_results[0] raises IndexError
                      [ret |-> Truncate(documents, top_k), raised |-> TRUE] @@ hist
                 ELSE [ret |-> final_results, ranked |-> reranked_docs] @@ hist

\* RerankService.rerank with the cross-encoder in state c: the list
\* returned (ret), the cross-encoder afterwards (ce), and the history of
\* the call (loadFailed: ensure_model_loaded returned False).
Rerank(documents, top_k, batch_size, c, env) ==
    LET el == EnsureModelLoaded(c, env.load)
    IN  IF documents = <<>>
        THEN [ret |-> <<>>, ce |-> c] @@ NoHist
        ELSE IF ~el.ret
        THEN [ret |-> Truncate(documents, top_k), ce |-> el.ce, loadFailed |-> TRUE]
             @@ NoHist
        ELSE [ce |-> el.ce] @@ RerankAfterLoad(documents, top_k, batch_size, el.ce, env)

(***************************************************************************)
(* Direct calls of rerank: one call per behaviour, on any candidate list   *)
(* in any order, with any top_k, on a loaded or an unloaded model.         *)
(***************************************************************************)
\* Longest candidate list.
MaxDocs == 3

Perms(n) == {p \in [1..n -> 1..n] : \A i, j \in 1..n : p[i] = p[j] => i = j}

\* A hydrated candidate as search_documents builds it (lines 63-70); the
\* title is a string, or None when the stored document has "title": null.
\* Of the dict's keys the record keeps doc_id, title and vector_rank.
Candidate(rank, nullTitle) ==
    [doc_id |-> PyInt(rank),
     title |-> IF nullTitle THEN PyNone ELSE PyStr(1),
     vector_rank |-> rank]

\* top_k is None or an integer from 0 up to one more than the list length.
TopKs == {NoTopK} \cup {TopK(k) : k \in 0..(MaxDocs + 1)}

\* Candidate lists of up to MaxDocs documents with vector ranks 1..n in
\* any order, at most one of them (position b) with a null title.
RerankInputs ==
    UNION {{[documents |-> [i \in 1..n |-> Candidate(p[i], i = b)], top_k |-> t] :
              p \in Perms(n), b \in 0..n, t \in TopKs} : n \in 0..MaxDocs}

NotCalled == [called |-> FALSE]

\* rerank_service_instance.rerank(query, documents, top_k)
RerankCall ==
    /\ ~rrOut.called
    /\ \E env \in RerankEnvs(Len(rrIn.documents)) :
         LET r == Rerank(rrIn.documents, rrIn.top_k, BatchSize, ce, env)
         IN  /\ rrOut' = [called |-> TRUE] @@ r
             /\ ce' = r.ce
    /\ UNCHANGED <<rrIn, storeVars, serveVars>>

(***************************************************************************)
(* Direct calls of the cross-encoder's methods, in any sequence.  rrIn is  *)
(* the sequence of the calls made, each with is_loaded as the call left    *)
(* it; rrOut is the last call: the state it started in and what it         *)
(* returned.                                                               *)
(***************************************************************************)
\* Number of calls in a sequence.
MaxCalls == 3

\* cross_encoder_instance.load_model()
LoadCall ==
    /\ Len(rrIn) < MaxCalls
    /\ \E out \in LoadOutcomes :
         LET r == LoadModel(ce, out)
         IN  /\ ce' = r.ce
             /\ rrIn' = Append(rrIn, <<"load_model", r.ce.is_loaded>>)
             /\ rrOut' = [called |-> TRUE, op |-> "load_model", before |-> ce,
                           ret |-> r.ret]
    /\ UNCHANGED <<storeVars, serveVars>>

\* cross_encoder_instance.unload_model()
UnloadCall ==
    /\ Len(rrIn) < MaxCalls
    /\ ce' = UnloadModel(ce)
    /\ rrIn' = Append(rrIn, <<"unload_model", UnloadModel(ce).is_loaded>>)
    /\ rrOut' = [called |-> TRUE, op |-> "unload_model", before |-> ce, ret |-> PyNone]
    /\ UNCHANGED <<storeVars, serveVars>>

\* cross_encoder_instance.compute_scores(query_doc_pairs, batch_size)
ScoresCall ==
    /\ Len(rrIn) < MaxCalls
    /\ \E n \in 0..MaxDocs :
         \E batchRaises \in [1..NumBatches(n, BatchSize) -> BOOLEAN],
            modelScore \in [1..n -> 0..MaxScore] :
             rrOut' = [called |-> TRUE, op |-> "compute_scores", before |-> ce,
                       ret |-> ComputeScores(ce, n, BatchSize, batchRaises, modelScore)]
    /\ rrIn' = Append(rrIn, <<"compute_scores", ce.is_loaded>>)
    /\ UNCHANGED <<ce, storeVars, serveVars>>

(***************************************************************************)
(* RerankService._prepare_document_text.  A string is the sequence of its  *)
(* characters.                                                             *)
(***************************************************************************)
\* Longest title and longest text of a direct call.
MaxStr == 2
\* Largest max_length of a direct call (400 by default in the code).
MaxBudget == 3

Chars == {"a", " "}

Strings == SeqsUpTo(Chars, MaxStr)

\* str.strip(): without the whitespace at both ends
RECURSIVE LStrip(_)
LStrip(str) == IF str # <<>> /\ Head(str) = " " THEN LStrip(Tail(str)) ELSE str

RECURSIVE RStrip(_)
RStrip(str) ==
    IF str # <<>> /\ str[Len(str)] = " " THEN RStrip(SubSeq(str, 1, Len(str) - 1)) ELSE str

Strip(str) == RStrip(LStrip(str))

\* doc.get(key, '')
GetOrEmpty(doc, key) == IF key \in DOMAIN doc THEN doc[key] ELSE <<>>

\* "无内容"
NoContent == <<"无", "内", "容">>

\* RerankService._prepare_document_text
PrepareDocumentText(doc, max_length) ==
    LET title == Strip(GetOrEmpty(doc, "title"))
        text  == Strip(GetOrEmpty(doc, "text"))
        combined == IF title # <<>> /\ text # <<>> THEN title \o <<".", " ">> \o text
                    ELSE IF title # <<>> THEN title
                    ELSE IF text # <<>> THEN text
                    ELSE NoContent
    IN  IF Len(combined) > max_length
        THEN SubSeq(combined, 1, max_length) \o <<".", ".", ".">>
        ELSE combined

\* A document with a title and a text, each a string or not there.
TextDocs ==
    {[k \in ks |-> IF k = "title" THEN t ELSE x] :
        ks \in SUBSET {"title", "text"}, t \in Strings, x \in Strings}

PrepareInputs == [doc : TextDocs, max_length : 1..MaxBudget]

\* rerank_service_instance._prepare_document_text(doc, max_length)
PrepareCall ==
    /\ ~rrOut.called
    /\ rrOut' = [called |-> TRUE, ret |-> PrepareDocumentText(rrIn.doc, rrIn.max_length)]
    /\ UNCHANGED <<rrIn, ce, storeVars, serveVars>>

(***************************************************************************)
(* RerankService.compare_rankings and get_rerank_stats.  A ratio a / b of  *)
(* two integers is kept as the pair <<a, b>>.                              *)
(***************************************************************************)
\* Longest list, and largest rank, of a direct call of compare_rankings.
MaxRanked == 2

RECURSIVE Sum(_)
Sum(xs) == IF xs = <<>> THEN 0 ELSE Head(xs) + Sum(Tail(xs))

SeqMax(xs) == CHOOSE x \in {xs[i] : i \in 1..Len(xs)} : \A i \in 1..Len(xs) : xs[i] <= x
SeqMin(xs) == CHOOSE x \in {xs[i] : i \in 1..Len(xs)} : \A i \in 1..Len(xs) : xs[i] >= x

\* doc.get(key, 0)
GetOr0(doc, key) == IF key \in DOMAIN doc THEN doc[key] ELSE 0

\* {}
EmptyDict == [k \in {} |-> 0]

\* {"no_ranking_data": True}
NoRankingData == [no_ranking_data |-> TRUE]

\* lines 153-158: original_rank - final_rank of the documents that have
\* both ranks above 0
RECURSIVE RankChanges(_)
RankChanges(documents) ==
    IF documents = <<>> THEN <<>>
    ELSE LET original_rank == GetOr0(Head(documents), "original_rank")
             final_rank == GetOr0(Head(documents), "final_rank")
         IN  (IF original_rank > 0 /\ final_rank > 0
              THEN <<original_rank - final_rank>> ELSE <<>>)
             \o RankChanges(Tail(documents))

\* RerankService.compare_rankings
CompareRankings(documents) ==
    IF documents = <<>> THEN EmptyDict
    ELSE LET rank_changes == RankChanges(documents)
             n == Len(rank_changes)
         IN  IF rank_changes = <<>> THEN NoRankingData
             ELSE [total_docs |-> Len(documents),
                   avg_rank_change |-> <<Sum(rank_changes), n>>,
                   max_rank_improvement |-> SeqMax(rank_changes),
                   max_rank_decline |-> SeqMin(rank_changes),
                   docs_improved |-> Cardinality({i \in 1..n : rank_changes[i] > 0}),
                   docs_declined |-> Cardinality({i \in 1..n : rank_changes[i] < 0}),
                   docs_unchanged |-> Cardinality({i \in 1..n : rank_changes[i] = 0})]

\* RerankService.get_rerank_stats
GetRerankStats(documents) ==
    IF documents = <<>> THEN [total |-> 0]
    ELSE LET scores == [i \in 1..Len(documents) |->
                           GetOr0(documents[i], "cross_encoder_score")]
         IN  [total |-> Len(documents),
              max_score |-> SeqMax(scores),
              min_score |-> SeqMin(scores),
              avg_score |-> <<Sum(scores), Len(scores)>>,
              score_range |-> SeqMax(scores) - SeqMin(scores)]

\* A document as compare_rankings sees it: original_rank and final_rank,
\* each there (o, f > 0) or not (0).
RankedDoc(o, f) ==
    [k \in (IF o > 0 THEN {"original_rank"} ELSE {})
            \cup (IF f > 0 THEN {"final_rank"} ELSE {}) |->
        IF k = "original_rank" THEN o ELSE f]

RankedDocs == {RankedDoc(o, f) : o \in 0..MaxRanked, f \in 0..MaxRanked}

CompareInputs == {[documents |-> ds, top_k |-> NoTopK] : ds \in SeqsUpTo(RankedDocs, MaxRanked)}

\* rerank_service_instance.compare_rankings(documents)
CompareCall ==
    /\ ~rrOut.called
    /\ rrOut' = [called |-> TRUE, ret |-> CompareRankings(rrIn.documents)]
    /\ UNCHANGED <<rrIn, ce, storeVars, serveVars>>

(***************************************************************************)
(* The request handlers of app/api/routes/search.py.  Each is an           *)
(* `async def` without an await: once the event loop has started one it    *)
(* runs to its return before the loop runs another.                        *)
(***************************************************************************)
\* Number of clients sending requests.
NumClients == 2
\* The history variable unloads counts up to MaxUnloads and stays there.
MaxUnloads == 2

Clients == 1..NumClients

\* Handlers run on threads (plain `def` endpoints): any handler may take
\* a step at any time.
TurnThreaded(c) == TRUE

\* The event loop lets client c's handler take a step when no other
\* handler is in progress.
Turn(c) == running \in {0, c}

Idle == [pc |-> "idle", kind |-> "none", use_rerank |-> FALSE,
         retrieved_docs |-> <<>>, candidate_docs |-> <<>>, reranked_docs |-> <<>>,
         reloaded |-> FALSE, hist |-> NoHist]

NoResponse == [kind |-> "none"]

\* The document store: for each document id, whether the corpus has it and
\* whether its title is null.
DocStores == [1..MaxDocs -> {"missing", "ok", "null_title"}]

\* retrieval_service_instance.search: n hits with ranks 1..n, best first
Retrieved(n) == [i \in 1..n |-> [doc_id |-> PyInt(i), score |-> n - i, rank |-> i]]

\* A hydration that numbers the candidates it keeps 1, 2, ... in place of
\* the ranks retrieval gave them.
RECURSIVE HydrateRenumbers(_, _)
HydrateRenumbers(retrieved_docs, store) ==
    IF retrieved_docs = <<>> THEN <<>>
    ELSE LET n == Len(retrieved_docs)
             doc == retrieved_docs[n]
             content == store[doc.doc_id[2]]
             kept == HydrateRenumbers(SubSeq(retrieved_docs, 1, n - 1), store)
         IN  kept \o
             (IF content = "missing" THEN <<>>
              ELSE <<[doc_id |-> doc.doc_id,
                      title |-> IF content = "null_title" THEN PyNone ELSE PyStr(1),
                      vector_score |-> doc.score,
                      vector_rank |-> Len(kept) + 1]>>)

\* search_documents lines 54-71: get_documents_by_ids and the candidate
\* list; a hit whose id the store lacks is skipped
RECURSIVE Hydrate(_, _)
Hydrate(retrieved_docs, store) ==
    IF retrieved_docs = <<>> THEN <<>>
    ELSE LET doc == Head(retrieved_docs)
             content == store[doc.doc_id[2]]
         IN  (IF content = "missing" THEN <<>>
              ELSE <<[doc_id |-> doc.doc_id,
                      title |-> IF content = "null_title" THEN PyNone ELSE PyStr(1),
                      vector_score |-> doc.score,
                      vector_rank |-> doc.rank]>>)
             \o Hydrate(Tail(retrieved_docs), store)

\* The response of search_documents (lines 109-126), with the history of
\* the request: whether reranking was asked for, what retrieval returned,
\* the candidate list before reranking, and what happened inside rerank.
SearchResponse(final_results, reranked, asked, retrieved, candidates, reloaded, hist) ==
    [kind |-> "search", results |-> final_results, total |-> Len(final_results),
     reranked |-> reranked,
     asked |-> asked, retrieved |-> retrieved, candidates |-> candidates,
     reloaded |-> reloaded, hist |-> hist]

\* lines 121-124: rerank_stats and ranking_comparison are added to the
\* response when use_rerank holds and rerank_stats is not the empty dict
WithStats(response, use_rerank, rerank_stats, ranking_comparison) ==
    IF use_rerank /\ rerank_stats # EmptyDict
    THEN response @@ [rerank_stats |-> rerank_stats,
                      ranking_comparison |-> ranking_comparison]
    ELSE response

\* A request reaches the server: GET /api/search?use_rerank=..., POST
\* /api/rerank/unload or GET /api/rerank/status.
Arrive(c) ==
    /\ c \in active
    /\ hs[c].pc = "idle"
    /\ \E kind \in {"search", "unload", "status"}, use_rerank \in BOOLEAN :
         /\ kind # "search" => ~use_rerank
         /\ hs' = [hs EXCEPT ![c] = [Idle EXCEPT !.pc = "pending", !.kind = kind,
                                                 !.use_rerank = use_rerank]]
    /\ lastResp' = NoResponse
    /\ UNCHANGED <<running, docStore, active, unloads, ce, storeVars, rerankVars>>

\* search_documents, lines 29-78 and, when rerank is not entered, to the
\* return: retrieval, the empty result, hydration.
SearchStart(c) ==
    /\ hs[c].pc = "pending" /\ hs[c].kind = "search"
    /\ Turn(c)
    /\ \E n \in 0..MaxDocs :
         LET retrieved_docs == Retrieved(n)
             candidate_docs == Hydrate(retrieved_docs, docStore)
             use_rerank == hs[c].use_rerank
         IN  IF retrieved_docs = <<>>
             THEN /\ lastResp' = SearchResponse(<<>>, FALSE, use_rerank, <<>>, <<>>, FALSE,
                                                NoHist)
                  /\ hs' = [hs EXCEPT ![c] = Idle]
                  /\ running' = 0
             ELSE IF use_rerank /\ candidate_docs # <<>>
             THEN /\ hs' = [hs EXCEPT ![c].pc = "ensure",
                                      ![c].retrieved_docs = retrieved_docs,
                                      ![c].candidate_docs = candidate_docs]
                  /\ running' = c
                  /\ lastResp' = NoResponse
             ELSE /\ lastResp' = WithStats(
                                     SearchResponse(candidate_docs, use_rerank, use_rerank,
                                                    retrieved_docs, candidate_docs,
                                                    FALSE, NoHist),
                                     use_rerank, EmptyDict, EmptyDict)
                  /\ hs' = [hs EXCEPT ![c] = Idle]
                  /\ running' = 0
    /\ UNCHANGED <<docStore, active, unloads, ce, storeVars, rerankVars>>

\* rerank, lines 34-41: ensure_model_loaded and the return of the
\* original list when the load failed
SearchEnsure(c) ==
    /\ hs[c].pc = "ensure"
    /\ Turn(c)
    /\ \E out \in LoadOutcomes :
         LET el == EnsureModelLoaded(ce, out)
         IN  /\ ce' = el.ce
             /\ hs' = [hs EXCEPT ![c] =
                        IF el.ret
                        THEN [@ EXCEPT !.pc = "compute", !.reloaded = ~ce.is_loaded]
                        ELSE [@ EXCEPT !.pc = "assemble",
                                       !.reranked_docs = Truncate(hs[c].candidate_docs, NoTopK),
                                       !.hist = [loadFailed |-> TRUE] @@ NoHist]]
    /\ running' = c
    /\ lastResp' = NoResponse
    /\ UNCHANGED <<docStore, active, unloads, storeVars, rerankVars>>

\* rerank, lines 43-84: scoring, sorting, ranking
SearchCompute(c) ==
    /\ hs[c].pc = "compute"
    /\ Turn(c)
    /\ \E env \in RerankEnvs(Len(hs[c].candidate_docs)) :
         LET r == RerankAfterLoad(hs[c].candidate_docs, NoTopK, BatchSize, ce, env)
         IN  hs' = [hs EXCEPT ![c].pc = "assemble",
                              ![c].reranked_docs = r.ret,
                              ![c].hist = [f \in DOMAIN NoHist |-> r[f]]]
    /\ running' = c
    /\ lastResp' = NoResponse
    /\ UNCHANGED <<docStore, active, unloads, ce, storeVars, rerankVars>>

\* search_documents, lines 88-126: the response after rerank returned.
\* rerank catches every exception, so the except clause of lines 97-100 is
\* never entered and use_rerank stays True.
SearchAssemble(c) ==
    /\ hs[c].pc = "assemble"
    /\ Turn(c)
    /\ lastResp' = WithStats(
                       SearchResponse(hs[c].reranked_docs, hs[c].use_rerank,
                                      hs[c].use_rerank, hs[c].retrieved_docs,
                                      hs[c].candidate_docs, hs[c].reloaded, hs[c].hist),
                       hs[c].use_rerank,
                       GetRerankStats(hs[c].reranked_docs),
                       CompareRankings(hs[c].reranked_docs))
    /\ hs' = [hs EXCEPT ![c] = Idle]
    /\ running' = 0
    /\ UNCHANGED <<docStore, active, unloads, ce, storeVars, rerankVars>>

\* unload_rerank_model
UnloadRequest(c) ==
    /\ hs[c].pc = "pending" /\ hs[c].kind = "unload"
    /\ Turn(c)
    /\ ce' = UnloadModel(ce)
    /\ lastResp' = [kind |-> "unload"]
    /\ unloads' = IF ce.is_loaded THEN Min(unloads + 1, MaxUnloads) ELSE unloads
    /\ hs' = [hs EXCEPT ![c] = Idle]
    /\ running' = 0
    /\ UNCHANGED <<docStore, active, storeVars, rerankVars>>

\* get_rerank_status
StatusRequest(c) ==
    /\ hs[c].pc = "pending" /\ hs[c].kind = "status"
    /\ Turn(c)
    /\ lastResp' = [kind |-> "status", model_loaded |-> ModelInfoLoaded(ce)]
    /\ hs' = [hs EXCEPT ![c] = Idle]
    /\ running' = 0
    /\ UNCHANGED <<docStore, active, unloads, ce, storeVars, rerankVars>>

(***************************************************************************)
(* The specifications.  Each leaves the variables of the other parts at    *)
(* their initial values.                                                   *)
(***************************************************************************)
NoCall == [documents |-> <<>>, top_k |-> NoTopK]

\* The index store over process starts, interrupted saves and restarts:
\* any corpus, no files yet, no process.
InitStore ==
    /\ corpus \in Corpora
    /\ indexFile = Absent
    /\ idsFile = Absent
    /\ pcStore = "down"
    /\ index = NoneIndex
    /\ doc_ids = <<>>
    /\ runs = 0
    /\ servedFrom = "none"
    /\ builtStore = NoBuild
    /\ found = NotSearched
    /\ ce = Unloaded
    /\ rrIn = NoCall
    /\ rrOut = NotCalled
    /\ running = 0
    /\ docStore = [i \in 1..MaxDocs |-> "missing"]
    /\ active = {}
    /\ hs = [c \in Clients |-> Idle]
    /\ lastResp = NoResponse
    /\ unloads = 0

NextStore == Start \/ Stop
SpecStore == InitStore /\ [][NextStore]_vars

\* The document at line i of docs_path has the i-th id of this list (past
\* its end, no doc_id key).
IdOfLine(i) == IF i = 1 THEN PyInt(1) ELSE IF i = 2 THEN PyStr(1) ELSE PyNone

\* The index store answering searches between its starts and stops, over
\* the corpora whose ids are those of IdOfLine, with any texts.
InitQuery ==
    /\ corpus \in {c \in Corpora : \A i \in 1..Len(c) : c[i].doc_id = IdOfLine(i)}
    /\ indexFile = Absent
    /\ idsFile = Absent
    /\ pcStore = "down"
    /\ index = NoneIndex
    /\ doc_ids = <<>>
    /\ runs = 0
    /\ servedFrom = "none"
    /\ builtStore = NoBuild
    /\ found = NotSearched
    /\ ce = Unloaded
    /\ rrIn = NoCall
    /\ rrOut = NotCalled
    /\ running = 0
    /\ docStore = [i \in 1..MaxDocs |-> "missing"]
    /\ active = {}
    /\ hs = [c \in Clients |-> Idle]
    /\ lastResp = NoResponse
    /\ unloads = 0

NextQuery == Start \/ Stop \/ SearchCall
SpecQuery == InitQuery /\ [][NextQuery]_vars

\* One direct call of rerank on any input, the model loaded or not.
InitRerank ==
    /\ rrIn \in RerankInputs
    /\ rrOut = NotCalled
    /\ ce \in {Unloaded, Loaded}
    /\ corpus = <<>>
    /\ indexFile = Absent
    /\ idsFile = Absent
    /\ pcStore = "down"
    /\ index = NoneIndex
    /\ doc_ids = <<>>
    /\ runs = 0
    /\ servedFrom = "none"
    /\ builtStore = NoBuild
    /\ found = NotSearched
    /\ running = 0
    /\ docStore = [i \in 1..MaxDocs |-> "missing"]
    /\ active = {}
    /\ hs = [c \in Clients |-> Idle]
    /\ lastResp = NoResponse
    /\ unloads = 0

NextRerank == RerankCall
SpecRerank == InitRerank /\ [][NextRerank]_vars

\* One direct call of compare_rankings on any list of documents.
InitCompare ==
    /\ rrIn \in CompareInputs
    /\ rrOut = NotCalled
    /\ ce = Unloaded
    /\ corpus = <<>>
    /\ indexFile = Absent
    /\ idsFile = Absent
    /\ pcStore = "down"
    /\ index = NoneIndex
    /\ doc_ids = <<>>
    /\ runs = 0
    /\ servedFrom = "none"
    /\ builtStore = NoBuild
    /\ found = NotSearched
    /\ running = 0
    /\ docStore = [i \in 1..MaxDocs |-> "missing"]
    /\ active = {}
    /\ hs = [c \in Clients |-> Idle]
    /\ lastResp = NoResponse
    /\ unloads = 0

NextCompare == CompareCall
SpecCompare == InitCompare /\ [][NextCompare]_vars

\* One direct call of _prepare_document_text on any document.
InitPrepare ==
    /\ rrIn \in PrepareInputs
    /\ rrOut = NotCalled
    /\ ce = Unloaded
    /\ corpus = <<>>
    /\ indexFile = Absent
    /\ idsFile = Absent
    /\ pcStore = "down"
    /\ index = NoneIndex
    /\ doc_ids = <<>>
    /\ runs = 0
    /\ servedFrom = "none"
    /\ builtStore = NoBuild
    /\ found = NotSearched
    /\ running = 0
    /\ docStore = [i \in 1..MaxDocs |-> "missing"]
    /\ active = {}
    /\ hs = [c \in Clients |-> Idle]
    /\ lastResp = NoResponse
    /\ unloads = 0

NextPrepare == PrepareCall
SpecPrepare == InitPrepare /\ [][NextPrepare]_vars

\* The cross-encoder singleton, created unloaded, under any sequence of
\* direct calls.
InitEncoder ==
    /\ ce = Unloaded
    /\ rrIn = <<>>
    /\ rrOut = NotCalled
    /\ corpus = <<>>
    /\ indexFile = Absent
    /\ idsFile = Absent
    /\ pcStore = "down"
    /\ index = NoneIndex
    /\ doc_ids = <<>>
    /\ runs = 0
    /\ servedFrom = "none"
    /\ builtStore = NoBuild
    /\ found = NotSearched
    /\ running = 0
    /\ docStore = [i \in 1..MaxDocs |-> "missing"]
    /\ active = {}
    /\ hs = [c \in Clients |-> Idle]
    /\ lastResp = NoResponse
    /\ unloads = 0

NextEncoder == LoadCall \/ UnloadCall \/ ScoresCall
SpecEncoder == InitEncoder /\ [][NextEncoder]_vars

\* The server answering one client, over any document store; the model is
\* not yet loaded (the singleton is created unloaded).
InitServe ==
    /\ ce = Unloaded
    /\ running = 0
    /\ docStore \in DocStores
    /\ active = {1}
    /\ hs = [c \in Clients |-> Idle]
    /\ lastResp = NoResponse
    /\ unloads = 0
    /\ rrIn = NoCall
    /\ rrOut = NotCalled
    /\ corpus = <<>>
    /\ indexFile = Absent
    /\ idsFile = Absent
    /\ pcStore = "down"
    /\ index = NoneIndex
    /\ doc_ids = <<>>
    /\ runs = 0
    /\ servedFrom = "none"
    /\ builtStore = NoBuild
    /\ found = NotSearched

NextServe ==
    \E c \in Clients :
        \/ Arrive(c)
        \/ SearchStart(c)
        \/ SearchEnsure(c)
        \/ SearchCompute(c)
        \/ SearchAssemble(c)
        \/ UnloadRequest(c)
        \/ StatusRequest(c)
SpecServe == InitServe /\ [][NextServe]_vars

\* The server answering all clients at once, over a store that holds one
\* document.
InitLifecycle ==
    /\ ce = Unloaded
    /\ running = 0
    /\ docStore = [i \in 1..MaxDocs |-> IF i = 1 THEN "ok" ELSE "missing"]
    /\ active = Clients
    /\ hs = [c \in Clients |-> Idle]
    /\ lastResp = NoResponse
    /\ unloads = 0
    /\ rrIn = NoCall
    /\ rrOut = NotCalled
    /\ corpus = <<>>
    /\ indexFile = Absent
    /\ idsFile = Absent
    /\ pcStore = "down"
    /\ index = NoneIndex
    /\ doc_ids = <<>>
    /\ runs = 0
    /\ servedFrom = "none"
    /\ builtStore = NoBuild
    /\ found = NotSearched

SpecLifecycle == InitLifecycle /\ [][NextServe]_vars

(***************************************************************************)
(* Properties.                                                             *)
(***************************************************************************)
DocIdsOf(docs) == [i \in 1..Len(docs) |-> docs[i].doc_id]

Count(seq, x) == Cardinality({i \in 1..Len(seq) : seq[i] = x})

\* Something went wrong inside rerank: the model did not load, an
\* exception reached rerank's except clause, a scoring batch fell back to
\* zeros, or compute_scores found the model unloaded.
Failed(hist) ==
    hist.loadFailed \/ hist.raised \/ hist.batchFailed \/ hist.unloadedAtScoring

\* A response to a search request that asked for reranking and had at
\* least one hydrated candidate.
RerankAsked == lastResp.kind = "search" /\ lastResp.asked /\ lastResp.candidates # <<>>

\* C1: a search response with use_rerank=true and at least one candidate
\* carries reranked=false whenever the model failed to load or scoring
\* raised (in rerank, or in any single batch), and carries reranked=true
\* only when every candidate was scored by the model.
C1_FailureIsFlagged ==
    RerankAsked =>
        /\ (Failed(lastResp.hist) => ~lastResp.reranked)
        /\ (lastResp.reranked => lastResp.hist.byModel)

\* C2: when the model fails to load or scoring raises, in one batch or in
\* all, the results of the search request are the candidate documents in
\* their order before reranking.
C2_FailureKeepsVectorOrder ==
    (RerankAsked /\ Failed(lastResp.hist)) =>
        DocIdsOf(lastResp.results) = DocIdsOf(lastResp.candidates)

\* The two files on disk were written by one _save_index that ran to its end.
MatchedPair ==
    /\ indexFile.kind = "file"
    /\ idsFile.kind = "file"
    /\ indexFile.by = idsFile.by

\* C3: a process that serves an index it loaded from disk loaded a pair
\* that was written together; what an interrupted or failed _save_index
\* left behind is never accepted.
C3_OnlyMatchedPairsAreLoaded ==
    (pcStore = "up" /\ servedFrom = "disk") => MatchedPair

\* C4: whenever the service is up with a non-null index, doc_ids has as
\* many entries as the index has vectors.
C4_LengthInvariant ==
    (pcStore = "up" /\ index # NoneIndex) => Len(doc_ids) = ntotal(index)

\* C5: for a non-empty candidate list, the output of rerank has, without
\* top_k, the same document ids with the same multiplicity, and with
\* top_k = k it has min(k, n) documents, each from the input.
C5_OutputIsPermutation ==
    (rrOut.called /\ rrIn.documents # <<>>) =>
        LET inIds  == DocIdsOf(rrIn.documents)
            outIds == DocIdsOf(rrOut.ret)
        IN  IF rrIn.top_k = NoTopK
            THEN /\ Len(outIds) = Len(inIds)
                 /\ \A i \in 1..Len(inIds) : Count(outIds, inIds[i]) = Count(inIds, inIds[i])
            ELSE /\ Len(outIds) = Min(rrIn.top_k[1], Len(inIds))
                 /\ \A i \in 1..Len(outIds) :
                        Count(outIds, outIds[i]) <= Count(inIds, outIds[i])

\* C6: whatever happens inside rerank, the final_rank values of the
\* returned candidates are 1..N in output order.
C6_FinalRankDense ==
    rrOut.called =>
        \A i \in 1..Len(rrOut.ret) :
            "final_rank" \in DOMAIN rrOut.ret[i] /\ rrOut.ret[i].final_rank = i

\* Of two returned candidates with equal cross_encoder_score, the one with
\* the lower original_rank comes first.
TiesByOriginalRank(docs) ==
    \A i, j \in 1..Len(docs) :
        (/\ i < j
         /\ "cross_encoder_score" \in DOMAIN docs[i]
         /\ "cross_encoder_score" \in DOMAIN docs[j]
         /\ docs[i].cross_encoder_score = docs[j].cross_encoder_score)
        => docs[i].original_rank < docs[j].original_rank

AscendingVectorRank(docs) ==
    \A i, j \in 1..Len(docs) : i < j => docs[i].vector_rank < docs[j].vector_rank

\* C7 as stated: for every ordering of the candidate list passed to
\* rerank, equal scores are ordered by original_rank.
C7_TiesByOriginalRankAnyOrder == rrOut.called => TiesByOriginalRank(rrOut.ret)

\* C7, amended: when the candidate list is passed in ascending vector_rank
\* order, as search_documents passes it, equal scores are ordered by
\* original_rank.
C7_TiesByOriginalRank ==
    (rrOut.called /\ AscendingVectorRank(rrIn.documents)) => TiesByOriginalRank(rrOut.ret)

\* A rerank of three candidates in vector order that moved the third to the
\* top and left the other two tied.
C7_Witness ==
    /\ rrOut.called
    /\ AscendingVectorRank(rrIn.documents)
    /\ Len(rrOut.ret) = 3
    /\ "cross_encoder_score" \in DOMAIN rrOut.ret[1]
    /\ rrOut.ret[1].original_rank = 3
    /\ rrOut.ret[2].cross_encoder_score = rrOut.ret[3].cross_encoder_score
    /\ rrOut.ret[2].original_rank = 1

\* C8: a rerank that passed ensure_model_loaded scores with the model
\* loaded: at its compute_scores call is_loaded holds and model and
\* tokenizer are there, and no rerank ever took the "Model not loaded"
\* zero-score path, whatever other requests were waiting meanwhile.
C8_ScoringOnlyWhenLoaded ==
    /\ \A c \in Clients :
         /\ hs[c].pc = "compute" =>
                ce.is_loaded /\ ce.model # "None" /\ ce.tokenizer # "None"
         /\ ~hs[c].hist.unloadedAtScoring
    /\ lastResp.kind = "search" => ~lastResp.hist.unloadedAtScoring

\* A rerank stands between ensure_model_loaded and compute_scores while an
\* unload request of another client waits for the event loop.
C8_Witness ==
    \E c, d \in Clients :
        /\ hs[c].pc = "compute"
        /\ hs[d].pc = "pending"
        /\ hs[d].kind = "unload"

\* C9, the states: right after an unload the model is not loaded, a status
\* response reports is_loaded as it is, and a rerank request that had to
\* load the model and met no scoring error scored every candidate with the
\* model and leaves it loaded.
C9_States ==
    /\ lastResp.kind = "unload" => ~ModelInfoLoaded(ce)
    /\ lastResp.kind = "status" => lastResp.model_loaded = ModelInfoLoaded(ce)
    /\ (/\ RerankAsked
        /\ lastResp.reloaded
        /\ ~lastResp.hist.raised
        /\ ~lastResp.hist.batchFailed)
       => (lastResp.hist.byModel /\ ModelInfoLoaded(ce))

\* C9, the steps: a status probe answered right after an unload reports
\* model_loaded=false, and one answered right after a rerank that loaded
\* the model reports model_loaded=true.
C9_Steps ==
    /\ (lastResp.kind = "unload" /\ lastResp'.kind = "status")
       => lastResp'.model_loaded = FALSE
    /\ (RerankAsked /\ lastResp.reloaded /\ lastResp'.kind = "status")
       => lastResp'.model_loaded = TRUE

\* C9: unload, then status reports false; the next rerank reloads the
\* model, scores with it, and status reports true afterwards; for any
\* number of repetitions.
C9_UnloadThenReload == [](C9_States) /\ [][C9_Steps]_vars

\* A rerank response of a request that reloaded the model after it had
\* been loaded and released twice before.
C9_Witness ==
    /\ RerankAsked
    /\ lastResp.reloaded
    /\ lastResp.hist.byModel
    /\ unloads >= 2
    /\ ModelInfoLoaded(ce)

\* C10: a store that loaded the pair a completed _save_index wrote returns,
\* for every query vector and every k, the hits of the store that built
\* and saved it: the same ids, scores and ranks in the same order.
C10_RoundTrip ==
    (/\ pcStore = "up"
     /\ servedFrom = "disk"
     /\ MatchedPair
     /\ builtStore.by = indexFile.by)
    => \A q \in QueryVecs, k \in 1..MaxK :
          SearchStore(index, doc_ids, q, k)
              = SearchStore(builtStore.index, builtStore.doc_ids, q, k)

\* A store loaded from a saved pair, by a later process than the one that
\* built it, that answers some query with two hits.
C10_Witness ==
    /\ pcStore = "up"
    /\ servedFrom = "disk"
    /\ MatchedPair
    /\ builtStore.by = indexFile.by
    /\ runs > builtStore.by
    /\ \E q \in QueryVecs, k \in 1..MaxK : Len(SearchStore(index, doc_ids, q, k)) = 2

\* The running process has answered a search.
Searched == pcStore = "up" /\ found.nth > 0

\* C11: a search with top_k = k >= 1 returns n <= min(k, corpus size)
\* results, each for a vector the index holds (no padding entry), with
\* rank fields 1..n in order.
C11_SearchRanksDense ==
    Searched =>
        LET n == Len(found.results)
        IN  /\ n <= Min(found.top_k, Len(corpus))
            /\ \A i \in 1..n :
                   /\ found.results[i].rank = i
                   /\ \E p \in 0..(ntotal(index) - 1) :
                          /\ found.labels[i] = p
                          /\ found.results[i].doc_id = doc_ids[p + 1]

\* A search that asked for more results than the corpus has documents
\* and got one result per document, behind them the padding of the index.
C11_Witness ==
    /\ Searched
    /\ found.top_k > Len(corpus)
    /\ Len(corpus) = 2
    /\ Len(found.results) = 2
    /\ found.labels[found.top_k] = -1

\* A document that has both of its ranks.
HasBothRanks(doc) == "original_rank" \in DOMAIN doc /\ "final_rank" \in DOMAIN doc

\* C12: compare_rankings returns the "no ranking data" marker whenever no
\* document of its input has both original_rank and final_rank, the empty
\* input included.
C12_MarkerWhenNoRanks ==
    (rrOut.called /\ \A i \in 1..Len(rrIn.documents) : ~HasBothRanks(rrIn.documents[i]))
        => rrOut.ret = NoRankingData

\* The rerank stage returned the candidates in their order before
\* reranking because the model did not load or rerank raised.
FellBack(hist) == hist.loadFailed \/ hist.raised

\* C13: a search response has rerank_stats and ranking_comparison, both or
\* neither; it has neither when reranking was not requested or the rerank
\* stage fell back to the unreranked order, and it has both when
\* reranking was requested and carried out on the candidates.
C13_StatsIffReranked ==
    lastResp.kind = "search" =>
        /\ ("rerank_stats" \in DOMAIN lastResp) = ("ranking_comparison" \in DOMAIN lastResp)
        /\ (~lastResp.asked \/ FellBack(lastResp.hist))
               => "rerank_stats" \notin DOMAIN lastResp
        /\ (RerankAsked /\ ~FellBack(lastResp.hist))
               => "rerank_stats" \in DOMAIN lastResp

\* C14: once the store is built or loaded, every search of the running
\* process (the one step of a search request that reaches the retrieval
\* service) leaves the index and the doc_ids array as they were.
C14_SearchLeavesStore ==
    [][(pcStore = "up" /\ pcStore' = "up") => (index' = index /\ doc_ids' = doc_ids)]_vars

\* The second search of a process, over an index of two vectors, both
\* returned.
C14_Witness ==
    /\ Searched
    /\ found.nth >= 2
    /\ index # NoneIndex
    /\ ntotal(index) = 2
    /\ Len(found.results) = 2

\* C15: when rerank is called with top_k = k and reaches the sort, every
\* candidate was scored and the output is the first min(k, n) entries of
\* the full score-descending list, so that no omitted candidate has a
\* higher score than a returned one; for every k, 0 included (no entry
\* returned).
C15_TruncateAfterSort ==
    (rrOut.called /\ rrIn.top_k # NoTopK /\ "ranked" \in DOMAIN rrOut) =>
        LET full == rrOut.ranked
            m    == Min(rrIn.top_k[1], Len(full))
        IN  /\ Len(full) = Len(rrIn.documents)
            /\ rrOut.ret = SubSeq(full, 1, m)
            /\ \A i \in 1..m, j \in (m + 1)..Len(full) :
                   full[j].cross_encoder_score <= full[i].cross_encoder_score

\* The positions, in the list the index returned, of the labels that lie
\* in 0..len(doc_ids)-1.
InRangeHits == {i \in 1..Len(found.labels) :
                   found.labels[i] >= 0 /\ found.labels[i] < Len(doc_ids)}

\* C16: search does not raise; it returns one candidate for each position
\* the index returned inside 0..len(doc_ids)-1, with the doc_id stored at
\* that position, and none for a position outside (the -1 padding
\* included).
C16_OnlyValidPositions ==
    Searched =>
        /\ ~found.raised
        /\ Len(found.results) = Cardinality(InRangeHits)
        /\ \A j \in 1..Len(found.results) :
               \E i \in InRangeHits :
                   /\ found.results[j].rank = i
                   /\ found.results[j].doc_id = doc_ids[found.labels[i] + 1]
                   /\ Cardinality({h \in InRangeHits : h <= i}) = j

\* A search over a loaded index whose doc_ids list is empty: the index
\* returned a stored position and the -1 padding, and no candidate came
\* of either.
C16_Witness ==
    /\ Searched
    /\ index # NoneIndex
    /\ doc_ids = <<>>
    /\ \E i, j \in 1..Len(found.labels) : found.labels[i] >= 0 /\ found.labels[j] = -1
    /\ found.results = <<>>

\* The positions of the retrieved hits whose id the document store has.
InStore(retrieved) == {i \in 1..Len(retrieved) : docStore[retrieved[i].doc_id[2]] # "missing"}

\* C17: every search request is answered; the candidates are the
\* retrieved hits whose id the document store has, in retrieval order,
\* each with the score and the rank retrieval gave it; and when retrieval
\* returned nothing the response is the empty result with total = 0 and
\* reranked = false.
C17_HydrationDropsMissing ==
    lastResp.kind = "search" =>
        LET retrieved  == lastResp.retrieved
            candidates == lastResp.candidates
        IN  /\ Len(candidates) = Cardinality(InStore(retrieved))
            /\ \A j \in 1..Len(candidates) :
                   \E i \in InStore(retrieved) :
                       /\ Cardinality({h \in InStore(retrieved) : h <= i}) = j
                       /\ candidates[j].doc_id = retrieved[i].doc_id
                       /\ candidates[j].vector_score = retrieved[i].score
                       /\ candidates[j].vector_rank = retrieved[i].rank
            /\ retrieved = <<>> =>
                   (lastResp.results = <<>> /\ lastResp.total = 0 /\ ~lastResp.reranked)

\* A response to a request whose retrieval returned three hits, the
\* second of them unknown to the document store: the candidates are the
\* first and the third.
C17_Witness ==
    /\ lastResp.kind = "search"
    /\ Len(lastResp.retrieved) = 3
    /\ InStore(lastResp.retrieved) = {1, 3}
    /\ Len(lastResp.candidates) = 2
    /\ lastResp.candidates[2].vector_rank = 3

\* C18: the string _prepare_document_text returns is at most max_length
\* characters long.
C18_TextWithinBudget ==
    rrOut.called => Len(rrOut.ret) <= rrIn.max_length

\* C19: after every sequence of load_model, unload_model and
\* compute_scores calls, failed loads included, is_loaded holds exactly
\* when model and tokenizer are both there; a load_model on a loaded
\* model and an unload_model on an unloaded one leave the state as it was.
C19_LoadedIffModelAndTokenizer ==
    /\ ce.is_loaded = (ce.model # "None" /\ ce.tokenizer # "None")
    /\ (rrOut.called /\ rrOut.op = "load_model" /\ rrOut.before.is_loaded)
           => ce = rrOut.before
    /\ (rrOut.called /\ rrOut.op = "unload_model" /\ ~rrOut.before.is_loaded)
           => ce = rrOut.before

\* A model that was loaded and released, and whose next load failed.
C19_Witness ==
    /\ rrIn = <<<<"load_model", TRUE>>, <<"unload_model", FALSE>>, <<"load_model", FALSE>>>>
    /\ rrOut.op = "load_model"
    /\ rrOut.ret = FALSE
    /\ ~ce.is_loaded

=============================================================================
